---- MODULE Spec2Model ----
(***************************************************************************)
(* Picard solvers of src/cdft/minimise.py: minimise_SR_onetype,            *)
(* minimise_SR_twotype, minimise_LR_twotype and calculate_charge_density.  *)
(*                                                                         *)
(* Numbers.  A float is a record [k, v]: k = "fin" with an integer v,      *)
(* k = "inf" with v = 1 or -1, or k = "nan".  Log-densities and            *)
(* correlation profiles are counted in steps of ln 2, densities and        *)
(* density tolerances in units of 5e-6 (so exp of a log value v is 2^v     *)
(* units and 1.0 is DensityOne units), potentials and their tolerance in   *)
(* units of 1e-3, relaxation coefficients in parts per AlphaDen.  A mix    *)
(* is rounded to the nearest unit, as floating point rounds to the         *)
(* nearest representable number.  The inputs keep every finite log value   *)
(* in the range where exp neither underflows nor overflows.                *)
(***************************************************************************)
EXTENDS Integers, Sequences, FiniteSets, TLC

\* ------------------------------------------------------------------ floats

Fin(n) == [k |-> "fin", v |-> n]
NaN == [k |-> "nan", v |-> 0]
PInf == [k |-> "inf", v |-> 1]
NInf == [k |-> "inf", v |-> -1]

isfinite(x) == x.k = "fin"
isnan(x) == x.k = "nan"

Sign(n) == IF n > 0 THEN 1 ELSE IF n < 0 THEN -1 ELSE 0

FNeg(x) == IF isnan(x) THEN NaN ELSE [k |-> x.k, v |-> -(x.v)]

\* IEEE addition: NaN is absorbing, inf + (-inf) is NaN.
FAdd(a, b) ==
    IF isnan(a) \/ isnan(b) THEN NaN
    ELSE IF a.k = "inf" /\ b.k = "inf" THEN (IF a.v = b.v THEN a ELSE NaN)
    ELSE IF a.k = "inf" THEN a
    ELSE IF b.k = "inf" THEN b
    ELSE Fin(a.v + b.v)

FSub(a, b) == FAdd(a, FNeg(b))

\* IEEE product with an exact integer factor: 0 * inf is NaN.
FScale(n, x) ==
    IF isnan(x) THEN NaN
    ELSE IF x.k = "inf" THEN (IF n = 0 THEN NaN ELSE [k |-> "inf", v |-> Sign(n) * x.v])
    ELSE Fin(n * x.v)

FAbs(x) == IF isnan(x) THEN NaN ELSE [k |-> x.k, v |-> IF x.v < 0 THEN -(x.v) ELSE x.v]

\* a < b and a > b of IEEE floats: FALSE as soon as one side is NaN.
FLt(a, b) ==
    /\ ~isnan(a)
    /\ ~isnan(b)
    /\ IF a.k = "inf" /\ b.k = "inf" THEN a.v < b.v
       ELSE IF a.k = "inf" THEN a.v < 0
       ELSE IF b.k = "inf" THEN b.v > 0
       ELSE a.v < b.v

FGt(a, b) == FLt(b, a)

RoundDiv(n, d) == (2 * n + d) \div (2 * d)

FRoundDiv(x, d) == IF isfinite(x) THEN Fin(RoundDiv(x.v, d)) ELSE x

RECURSIVE Pow2(_)
Pow2(n) == IF n <= 0 THEN 1 ELSE 2 * Pow2(n - 1)

RECURSIVE Log2(_)
Log2(d) == IF d <= 1 THEN 0 ELSE 1 + Log2(d \div 2)

\* np.exp: exp(-inf) is exactly 0, exp(nan) is nan.
exp(x) ==
    IF isnan(x) THEN NaN
    ELSE IF x.k = "inf" THEN (IF x.v < 0 THEN Fin(0) ELSE PInf)
    ELSE Fin(Pow2(x.v))

\* np.log of a positive density.
log(d) == Fin(Log2(d))

\* Python's builtin max(a, b): b when b > a, else a.  A NaN second argument
\* is never "greater", so it is dropped; a NaN first argument is kept.
pymax(a, b) == IF FGt(b, a) THEN b ELSE a

\* np.max over an array: NaN as soon as one entry is NaN.
RECURSIVE np_max_from(_, _)
np_max_from(a, p) ==
    IF p = Len(a) THEN a[p]
    ELSE LET r == np_max_from(a, p + 1)
         IN  IF isnan(a[p]) \/ isnan(r) THEN NaN
             ELSE IF FGt(r, a[p]) THEN r ELSE a[p]

np_max(a) == np_max_from(a, 1)

\* n1/d1 < n2/d2 for naturals n1, n2 and positive d1, d2, by comparing the
\* continued fractions (no product is formed).
RECURSIVE FracLt(_, _, _, _)
FracLt(n1, d1, n2, d2) ==
    LET q1 == n1 \div d1
        q2 == n2 \div d2
        r1 == n1 % d1
        r2 == n2 % d2
    IN  IF q1 # q2 THEN q1 < q2
        ELSE IF r2 = 0 THEN FALSE
        ELSE IF r1 = 0 THEN TRUE
        ELSE FracLt(d2, r2, d1, r1)

\* Arrays over the grid.
ones_like(a) == [p \in DOMAIN a |-> Fin(1)]
Zeros(a) == [p \in DOMAIN a |-> Fin(0)]
np_isfinite(a) == [p \in DOMAIN a |-> isfinite(a[p])]
np_exp(a) == [p \in DOMAIN a |-> exp(a[p])]
np_abs_diff(a, b) == [p \in DOMAIN a |-> FAbs(FSub(a[p], b[p]))]
np_add(a, b) == [p \in DOMAIN a |-> FAdd(a[p], b[p])]
np_scale(n, a) == [p \in DOMAIN a |-> FScale(n, a[p])]

\* ------------------------------------------------------------------- units

\* Relaxation coefficients are counted in parts per AlphaDen (1e-6 is 1).
AlphaDen == 1000000

\* The density 1.0 in density units of 5e-6.
DensityOne == 200000

\* One step of ln 2 in potential units of 1e-3 (potentials and their
\* tolerance are counted in 1e-3 kT/e, log-densities in steps of ln 2).
PotPerLogStep == 693

\* --------------------------------------------------- defaults of the module

\* Module-level schedule tables (coefficients in parts per AlphaDen).
alpha_updates_default_onetype_init ==
    10 :> 100 @@ 20 :> 1000 @@ 50 :> 1000 @@ 100 :> 5000 @@
    300 :> 5000 @@ 900 :> 8000 @@ 2000 :> 10000 @@ 5000 :> 100000

alpha_updates_default_twotype_init ==
    10 :> 1 @@ 20 :> 10 @@ 50 :> 20 @@ 100 :> 40 @@
    200 :> 60 @@ 400 :> 100 @@ 1000 :> 200 @@ 1200 :> 400 @@
    1400 :> 500 @@ 1700 :> 600 @@ 1800 :> 700 @@ 1900 :> 800 @@
    2100 :> 900 @@ 2200 :> 1000 @@ 2300 :> 1100 @@ 2400 :> 1200 @@
    2600 :> 1300 @@ 2800 :> 1400 @@ 3000 :> 1500 @@ 3200 :> 1600 @@
    3400 :> 1800 @@ 3600 :> 2000 @@ 3800 :> 2100 @@ 4000 :> 2300 @@
    4200 :> 2500 @@ 4400 :> 2600 @@ 4600 :> 2800 @@ 4800 :> 3000 @@
    5000 :> 3200 @@ 5200 :> 3500 @@ 5400 :> 3600 @@ 5500 :> 4000 @@
    5800 :> 5000 @@ 6000 :> 6000 @@ 6200 :> 8000 @@ 6400 :> 15000 @@
    7000 :> 20000 @@ 8000 :> 30000 @@ 9000 :> 70000 @@ 10000 :> 80000

alpha_restr_updates_default_init ==
    1100 :> 15000 @@ 1200 :> 20000 @@ 1500 :> 50000 @@ 1800 :> 80000 @@
    2000 :> 100000 @@ 2200 :> 150000

\* Default arguments, in the units above.
tolerance_default_onetype == 1
tolerance_default_twotype == 2
tolerance_default_LR == 2
tolerance_restr_default == 1
alpha_initial_default == 1
alpha_restr_initial == 10000

\* A threshold tighter than the default tolerance.
SecondaryThreshold_tight == tolerance_default_LR - 1

\* The constant 1e-2 of the potential update's test "delta < 1e-2".
SecondaryThreshold == 2000

tolerance_default(f) ==
    IF f = "SR_onetype" THEN tolerance_default_onetype
    ELSE IF f = "SR_twotype" THEN tolerance_default_twotype
    ELSE tolerance_default_LR

\* ------------------------------------------------------------------- bounds

\* The largest maxiter a call is made with.
MaxIter == 2

\* ---------------------------------------------------------- state of a call

VARIABLES
    f,                    \* the entry point called
    zbins,                \* the caller's grid array
    muloc,                \* the caller's local chemical potential, per species
    initial_guess,        \* in density units
    maxiter,
    alpha_initial,
    tolerance,
    tolerance_restr,
    caller_tables,        \* the schedule tables passed by the caller (or none)
    q,                    \* species charges (LR)
    self_energy,          \* prefactor * beta / (kappa_inv * sqrt(pi)), in log steps (LR)
    module_tables,        \* the module-level default tables
    valid, rho, rho_new, log_rho, log_rho_new,
    owner,                \* the array each log_rho_new name is bound to
    alpha, alpha_updates, alpha_restr, alpha_restr_updates,
    delta_phi, delta_phi_new, delta, delta_restr, relative_error_low,
    i,                    \* the loop index
    pc,                   \* "call", "loop" or "done"
    result,               \* what the call returned
    status,               \* ITERATING, CONVERGED, DIVERGED or EXHAUSTED
    ncalls,               \* evaluator calls made so far
    nan_seen,             \* the evaluator returned NaN at a valid position
    met,                  \* some iteration met the convergence test
    phi_prev,             \* the potential held before the last potential update
    entry,                \* the caller's arrays as they were at the call
    cd                    \* the call of calculate_charge_density and its result

inputs == <<f, zbins, muloc, initial_guess, maxiter, alpha_initial, tolerance,
            tolerance_restr, caller_tables, q, self_energy, module_tables, entry>>
fields == <<valid, rho, rho_new, log_rho, log_rho_new, owner>>
schedule == <<alpha, alpha_updates, alpha_restr, alpha_restr_updates>>
potential == <<delta_phi, delta_phi_new, delta_restr, phi_prev>>
control == <<delta, relative_error_low, i, pc, result, status, ncalls, nan_seen, met>>
vars == <<inputs, fields, schedule, potential, control, cd>>

Species == IF f = "SR_onetype" THEN {"X"} ELSE {"H", "O"}

NoTable == [given |-> FALSE, table |-> <<>>]
Given(t) == [given |-> TRUE, table |-> t]

\* ------------------------------------------------------------------ inputs

Grids == {<<Fin(0), Fin(1)>>}

MulocFields == {<<Fin(10), Fin(10)>>, <<NInf, Fin(10)>>, <<Fin(18), NaN>>}

MulocPairs ==
    { [H |-> <<Fin(10), Fin(10)>>, O |-> <<Fin(10), Fin(10)>>],
      [H |-> <<NInf, Fin(10)>>,    O |-> <<Fin(10), Fin(10)>>],
      [H |-> <<Fin(18), Fin(18)>>, O |-> <<Fin(18), NaN>>] }

Mulocs(fn) == IF fn = "SR_onetype" THEN {[X |-> m] : m \in MulocFields} ELSE MulocPairs

Guesses == {Pow2(11), Pow2(20)}

\* The default tolerance, or 0.6.
Tolerances(fn) == {tolerance_default(fn), 120000}

\* alpha_initial with alpha_updates: the defaults, or coefficients in (0,1)
\* with thresholds 0, 1, 2 and one beyond every maxiter.
AlphaCalls ==
    { [alpha_initial |-> alpha_initial_default, alpha_updates |-> NoTable],
      [alpha_initial |-> 500000, alpha_updates |-> Given(1 :> 250000 @@ (MaxIter + 2) :> 900000)],
      [alpha_initial |-> 250000, alpha_updates |-> Given(0 :> 750000 @@ 2 :> 500000)] }

RestrTables == {NoTable, Given(1 :> 500000)}

\* Profiles the correlation evaluator may return for one species.
C1Finite == {Fin(-1), Fin(0), Fin(1)}
UniformC1(g) == {[p \in DOMAIN g |-> v] : v \in C1Finite}
C1Fields(g) ==
    UniformC1(g) \cup {[p \in DOMAIN g |-> IF p = n THEN NaN ELSE Fin(0)] : n \in DOMAIN g}

\* neural.c1_onetype / neural.c1_twotype: the profiles of one evaluator call
\* (for two species: both finite, or a NaN in the profile of one of them).
c1_onetype(g) == {[X |-> c] : c \in C1Fields(g)}
c1_twotype(g) ==
    {[H |-> [p \in DOMAIN g |-> v[1]], O |-> [p \in DOMAIN g |-> v[2]]] :
        v \in {<<Fin(-1), Fin(-1)>>, <<Fin(0), Fin(0)>>, <<Fin(1), Fin(1)>>,
               <<Fin(-1), Fin(1)>>, <<Fin(1), Fin(-1)>>}}
    \cup {[H |-> c, O |-> [p \in DOMAIN g |-> Fin(1)]] : c \in C1Fields(g) \ UniformC1(g)}
    \cup {[H |-> [p \in DOMAIN g |-> Fin(1)], O |-> c] : c \in C1Fields(g) \ UniformC1(g)}

\* lmft.fourier_transform followed by lmft.restructure_electrostatic_potential,
\* times the prefactor: every wavenumber sums over the whole grid, so a NaN in
\* the charge density reaches every entry; otherwise any uniform potential.
PhiValues == {Fin(0), Fin(1), Fin(PotPerLogStep)}
restructure_electrostatic_potential(charge_density) ==
    IF \E p \in DOMAIN charge_density : ~isfinite(charge_density[p])
    THEN {[p \in DOMAIN charge_density |-> NaN]}
    ELSE {[p \in DOMAIN charge_density |-> v] : v \in PhiValues}

IdleCd == [pc |-> "idle"]

Init ==
    /\ f \in {"SR_onetype", "SR_twotype", "LR_twotype"}
    /\ zbins \in Grids
    /\ muloc \in Mulocs(f)
    /\ initial_guess \in Guesses
    /\ maxiter \in 0..MaxIter
    /\ \E a \in AlphaCalls :
        /\ alpha_initial = a.alpha_initial
        /\ \E r \in (IF f = "LR_twotype" THEN RestrTables ELSE {NoTable}) :
            caller_tables = [alpha_updates |-> a.alpha_updates, alpha_restr_updates |-> r]
    /\ tolerance \in Tolerances(f)
    /\ tolerance_restr = tolerance_restr_default
    /\ q = [H |-> 1, O |-> -1]
    /\ self_energy = 1
    /\ module_tables = [alpha_updates_default_onetype |-> alpha_updates_default_onetype_init,
                        alpha_updates_default_twotype |-> alpha_updates_default_twotype_init,
                        alpha_restr_updates_default |-> alpha_restr_updates_default_init]
    /\ entry = [zbins |-> zbins, muloc |-> muloc, caller_tables |-> caller_tables]
    /\ valid = [s \in Species |-> [p \in DOMAIN zbins |-> FALSE]]
    /\ rho = [s \in Species |-> Zeros(zbins)]
    /\ rho_new = [s \in Species |-> Zeros(zbins)]
    /\ log_rho = [s \in Species |-> Zeros(zbins)]
    /\ log_rho_new = [s \in Species |-> Zeros(zbins)]
    /\ owner = [s \in Species |-> "unbound"]
    /\ alpha = alpha_initial
    /\ alpha_updates = <<>>
    /\ alpha_restr = alpha_restr_initial
    /\ alpha_restr_updates = <<>>
    /\ delta_phi = Zeros(zbins)
    /\ delta_phi_new = Zeros(zbins)
    /\ phi_prev = Zeros(zbins)
    /\ delta = Fin(0)
    /\ delta_restr = Fin(1)
    /\ relative_error_low = FALSE
    /\ i = 0
    /\ pc = "call"
    /\ result = [kind |-> "pending", zbins |-> <<>>, rho |-> <<>>]
    /\ status = "ITERATING"
    /\ ncalls = 0
    /\ nan_seen = FALSE
    /\ met = FALSE
    /\ cd = IdleCd

\* ------------------------------------------------------------ array helpers

Not(mask) == [p \in DOMAIN mask |-> ~mask[p]]

\* buf[mask] = vals[mask] and buf[mask] = v, in place.
MaskedStore(buf, mask, vals) == [p \in DOMAIN buf |-> IF mask[p] THEN vals[p] ELSE buf[p]]
MaskedFill(buf, mask, v) == [p \in DOMAIN buf |-> IF mask[p] THEN v ELSE buf[p]]

\* An array that shares the memory of its argument, as a missing copy would.
zeros_like_view(a) == [owner |-> "arg", val |-> a]

\* np.zeros_like: a new array of zeros, owned by the call.
zeros_like(a) == [owner |-> "fresh", val |-> [p \in DOMAIN a |-> Fin(0)]]

\* The species whose in-place write lands last (H is written before O).
LastSpecies(S) == IF "O" \in S THEN "O" ELSE IF "H" \in S THEN "H" ELSE "X"

\* The caller's array after in-place writes through the names bound to it.
WrittenThrough(arr, own, written) ==
    LET shared == {s \in DOMAIN own : own[s] = "arg"}
    IN  IF shared = {} THEN arr ELSE written[LastSpecies(shared)]

\* (1 - alpha) * old + alpha * new, alpha in parts per AlphaDen.
Mix(a, old, new) == FRoundDiv(FAdd(FScale(AlphaDen - a, old), FScale(a, new)), AlphaDen)
np_mix(a, old, new) == [p \in DOMAIN old |-> Mix(a, old[p], new[p])]

\* ---------------------------------------------------------------- schedule

\* The lookup reads the entry of the index after this one.
ScheduleLookup_late(a, table, n) == IF (n + 1) \in DOMAIN table THEN table[n + 1] ELSE a

\* if i in alpha_updates: alpha = alpha_updates[i]
ScheduleLookup(a, table, n) == IF n \in DOMAIN table THEN table[n] ELSE a

\* alpha_updates is None -> the module's default table of the solver.
DefaultTable(fn) ==
    IF fn = "SR_onetype" THEN module_tables.alpha_updates_default_onetype
    ELSE module_tables.alpha_updates_default_twotype

\* -------------------------------------------------------------------- setup

\* Lines up to the loop: masks, the initial fields, the schedule.
Setup ==
    /\ pc = "call"
    /\ LET buf == zeros_like(zbins)
           v == [s \in Species |-> np_isfinite(muloc[s])]
           lr == [s \in Species |->
                    MaskedFill(MaskedFill(buf.val, v[s], log(initial_guess)), Not(v[s]), NInf)]
       IN  /\ valid' = v
           /\ rho' = [s \in Species |-> np_scale(initial_guess, ones_like(zbins))]
           /\ rho_new' = [s \in Species |-> buf.val]
           /\ log_rho' = lr
           /\ owner' = [s \in Species |-> buf.owner]
           /\ zbins' = WrittenThrough(zbins, owner', lr)
           /\ log_rho_new' = [s \in Species |-> IF buf.owner = "arg" THEN zbins' ELSE buf.val]
           /\ delta_phi' = buf.val
    /\ alpha' = alpha_initial
    /\ alpha_updates' = IF caller_tables.alpha_updates.given
                        THEN caller_tables.alpha_updates.table
                        ELSE DefaultTable(f)
    /\ alpha_restr' = alpha_restr_initial
    /\ alpha_restr_updates' = IF caller_tables.alpha_restr_updates.given
                              THEN caller_tables.alpha_restr_updates.table
                              ELSE module_tables.alpha_restr_updates_default
    /\ delta_restr' = Fin(1)
    /\ pc' = "loop"
    /\ UNCHANGED <<f, muloc, initial_guess, maxiter, alpha_initial, tolerance, tolerance_restr,
                   caller_tables, q, self_energy, module_tables, entry>>
    /\ UNCHANGED <<delta_phi_new, phi_prev, delta, relative_error_low, i, result, status,
                   ncalls, nan_seen, met, cd>>

\* ---------------------------------------------------------- one Picard step

\* The density update of one species and its delta.
PicardUpdate(a, buf, valid_s, muloc_s, c1_s, log_rho_s) ==
    LET lrn == MaskedFill(MaskedStore(buf, valid_s, np_add(muloc_s, c1_s)), Not(valid_s), NInf)
        rn == np_exp(lrn)
        lr == np_mix(a, log_rho_s, lrn)
        r == np_exp(lr)
    IN  [log_rho_new |-> lrn, rho_new |-> rn, log_rho |-> lr, rho |-> r,
         delta |-> np_max(np_abs_diff(rn, r))]

\* delta / m < tolerance, for a delta that is not NaN.
relative_error_lt(d, m, tol) ==
    IF isnan(m) THEN FALSE
    ELSE IF m.k = "inf" THEN isfinite(d) /\ m.v > 0 /\ tol > 0
    ELSE IF ~isfinite(d) THEN m.v # 0 /\ ((d.v < 0) = (m.v > 0))
    ELSE IF m.v = 0 THEN d.v < 0
    ELSE FracLt(d.v, m.v, tol, DensityOne)

\* The loop runs one index too far.
LoopContinues_extra(n, last) == n <= last

\* for i in range(maxiter + 1): another iteration follows iteration n.
LoopContinues(n, last) == n < last

\* The end of an iteration: return on NaN, return on convergence, or go on;
\* after the last index the loop ends and the failure sentinel is returned.
EndIteration(nandelta, converged, new_rho) ==
    /\ status' = IF nandelta THEN "DIVERGED"
                 ELSE IF converged THEN "CONVERGED"
                 ELSE IF LoopContinues(i, maxiter) THEN "ITERATING"
                 ELSE "EXHAUSTED"
    /\ result' = IF status' = "CONVERGED" THEN [kind |-> "fields", zbins |-> zbins', rho |-> new_rho]
                 ELSE IF status' = "ITERATING" THEN result
                 ELSE [kind |-> "None", zbins |-> <<>>, rho |-> <<>>]
    /\ pc' = IF status' = "ITERATING" THEN "loop" ELSE "done"
    /\ i' = IF status' = "ITERATING" THEN i + 1 ELSE i
    /\ ncalls' = ncalls + 1
    /\ met' = (met \/ (~nandelta /\ converged))

SeesNaN(c1) == \E s \in DOMAIN c1 : \E p \in DOMAIN zbins : valid[s][p] /\ isnan(c1[s][p])

\* One iteration of minimise_SR_onetype.
Iterate_SR_onetype ==
    /\ pc = "loop"
    /\ f = "SR_onetype"
    /\ alpha' = ScheduleLookup(alpha, alpha_updates, i)
    /\ \E c1_pred \in c1_onetype(zbins) :
        \E u \in {PicardUpdate(alpha', log_rho_new["X"], valid["X"], muloc["X"],
                               c1_pred["X"], log_rho["X"])} :
            /\ log_rho_new' = [X |-> u.log_rho_new]
            /\ rho_new' = [X |-> u.rho_new]
            /\ log_rho' = [X |-> u.log_rho]
            /\ rho' = [X |-> u.rho]
            /\ zbins' = WrittenThrough(zbins, owner, log_rho_new')
            /\ delta' = u.delta
            /\ relative_error_low' =
                   (~isnan(delta') /\ relative_error_lt(delta', np_max(u.rho), tolerance))
            /\ nan_seen' = (nan_seen \/ SeesNaN(c1_pred))
            /\ EndIteration(isnan(delta'),
                            FLt(delta', Fin(tolerance)) \/ relative_error_low',
                            rho')
    /\ UNCHANGED <<f, muloc, initial_guess, maxiter, alpha_initial, tolerance, tolerance_restr,
                   caller_tables, q, self_energy, module_tables, entry>>
    /\ UNCHANGED <<valid, owner, alpha_updates, alpha_restr, alpha_restr_updates, potential, cd>>

\* The densities and deltas of both species after the update with profiles c.
TwoSpeciesUpdate(a, c) ==
    [s \in {"H", "O"} |->
        PicardUpdate(a, log_rho_new[s], valid[s], muloc[s], c[s], log_rho[s])]

\* delta = max(delta_H, delta_O), Python's builtin max.
JointDelta(delta_H, delta_O) == pymax(delta_H, delta_O)

\* One iteration of minimise_SR_twotype.
Iterate_SR_twotype ==
    /\ pc = "loop"
    /\ f = "SR_twotype"
    /\ alpha' = ScheduleLookup(alpha, alpha_updates, i)
    /\ \E c1_pred \in c1_twotype(zbins) :
        \E u \in {TwoSpeciesUpdate(alpha', c1_pred)} :
            /\ log_rho_new' = [s \in Species |-> u[s].log_rho_new]
            /\ rho_new' = [s \in Species |-> u[s].rho_new]
            /\ log_rho' = [s \in Species |-> u[s].log_rho]
            /\ rho' = [s \in Species |-> u[s].rho]
            /\ zbins' = WrittenThrough(zbins, owner, log_rho_new')
            /\ delta' = JointDelta(u["H"].delta, u["O"].delta)
            /\ relative_error_low' =
                   (~isnan(delta') /\
                    relative_error_lt(delta', pymax(np_max(u["O"].rho), np_max(u["H"].rho)),
                                      tolerance))
            /\ nan_seen' = (nan_seen \/ SeesNaN(c1_pred))
            /\ EndIteration(isnan(delta'),
                            FLt(delta', Fin(tolerance)) \/ relative_error_low',
                            rho')
    /\ UNCHANGED <<f, muloc, initial_guess, maxiter, alpha_initial, tolerance, tolerance_restr,
                   caller_tables, q, self_energy, module_tables, entry>>
    /\ UNCHANGED <<valid, owner, alpha_updates, alpha_restr, alpha_restr_updates, potential, cd>>

\* ------------------------------------------------------------- long range

\* mu_correction(|q|, kappa_inv, temp): -q^2 * prefactor * beta / (kappa_inv * sqrt(pi)).
mu_correction(qabs, e) == Fin(-(qabs * qabs * e))

Abs(n) == IF n < 0 THEN -n ELSE n

\* c1_pred_SR - mu_correction + q * delta_phi, in log steps.
c1_LR(c1_s, q_s, phi) ==
    [p \in DOMAIN c1_s |->
        FAdd(FSub(c1_s[p], mu_correction(Abs(q_s), self_energy)),
             FRoundDiv(FScale(q_s, phi[p]), PotPerLogStep))]

\* The damped mix is used only while the density delta is NOT below the threshold.
DampedUpdate_swapped(d, dr) == ~FLt(d, Fin(SecondaryThreshold)) /\ FGt(dr, Fin(tolerance_restr))

\* delta < 1e-2 and delta_restr > tolerance_restr
DampedUpdate(d, dr) == FLt(d, Fin(SecondaryThreshold)) /\ FGt(dr, Fin(tolerance_restr))

\* Either tolerance alone is enough.
Converged_LR_either(d, dr) == FLt(d, Fin(tolerance)) \/ FLt(dr, Fin(tolerance_restr))

\* delta < tolerance and delta_restr < tolerance_restr
Converged_LR(d, dr) == FLt(d, Fin(tolerance)) /\ FLt(dr, Fin(tolerance_restr))

\* One iteration of minimise_LR_twotype.
Iterate_LR_twotype ==
    /\ pc = "loop"
    /\ f = "LR_twotype"
    /\ alpha' = ScheduleLookup(alpha, alpha_updates, i)
    /\ alpha_restr' = ScheduleLookup(alpha_restr, alpha_restr_updates, i)
    /\ \E c1_pred_SR \in c1_twotype(zbins) :
        \E u \in {TwoSpeciesUpdate(alpha',
                      [s \in {"H", "O"} |-> c1_LR(c1_pred_SR[s], q[s], delta_phi)])} :
        LET charge_density == np_add(np_scale(q["O"], u["O"].rho), np_scale(q["H"], u["H"].rho))
        IN  /\ log_rho_new' = [s \in Species |-> u[s].log_rho_new]
            /\ rho_new' = [s \in Species |-> u[s].rho_new]
            /\ log_rho' = [s \in Species |-> u[s].log_rho]
            /\ rho' = [s \in Species |-> u[s].rho]
            /\ zbins' = WrittenThrough(zbins, owner, log_rho_new')
            /\ delta_phi_new' \in restructure_electrostatic_potential(charge_density)
            /\ delta' = JointDelta(u["H"].delta, u["O"].delta)
            /\ delta_restr' = np_max(np_abs_diff(delta_phi_new', delta_phi))
            /\ phi_prev' = delta_phi
            /\ delta_phi' = IF DampedUpdate(delta', delta_restr')
                            THEN np_mix(alpha_restr', delta_phi, delta_phi_new')
                            ELSE delta_phi_new'
            /\ relative_error_low' = FALSE
            /\ nan_seen' = (nan_seen \/ SeesNaN(c1_pred_SR))
            /\ EndIteration(isnan(delta'), Converged_LR(delta', delta_restr'), rho')
    /\ UNCHANGED <<f, muloc, initial_guess, maxiter, alpha_initial, tolerance, tolerance_restr,
                   caller_tables, q, self_energy, module_tables, entry>>
    /\ UNCHANGED <<valid, owner, alpha_updates, alpha_restr_updates, cd>>

Next == Setup \/ Iterate_SR_onetype \/ Iterate_SR_twotype \/ Iterate_LR_twotype

Spec == Init /\ [][Next]_vars

\* ------------------------------------------------- calculate_charge_density

\* Exact rationals [n, d] with d > 0.
Rat(n) == [n |-> n, d |-> 1]
RAdd(a, b) == [n |-> a.n * b.d + b.n * a.d, d |-> a.d * b.d]
RSub(a, b) == [n |-> a.n * b.d - b.n * a.d, d |-> a.d * b.d]
RMul(a, b) == [n |-> a.n * b.n, d |-> a.d * b.d]
RDiv(a, b) == IF b.n > 0 THEN [n |-> a.n * b.d, d |-> a.d * b.n]
              ELSE [n |-> -(a.n * b.d), d |-> a.d * (-(b.n))]
RHalf(a) == [n |-> a.n, d |-> 2 * a.d]

\* np.trapz(y, x): the sum of (x[k+1] - x[k]) * (y[k] + y[k+1]) / 2.
RECURSIVE trapz_from(_, _, _)
trapz_from(y, x, k) ==
    IF k >= Len(x) THEN Rat(0)
    ELSE RAdd(RHalf(RMul(Rat(x[k + 1] - x[k]), RAdd(y[k], y[k + 1]))),
              trapz_from(y, x, k + 1))

trapz(y, x) == trapz_from(y, x, 1)

\* The background is built from the particle number, the charge left out.
calculate_charge_density_nocharge(rho_in, charge, L, z) ==
    LET total_number_particle == trapz(rho_in, z)
        background_charge_density == RDiv(total_number_particle, Rat(L))
    IN  [p \in DOMAIN rho_in |-> RSub(RMul(rho_in[p], Rat(charge)), background_charge_density)]

calculate_charge_density(rho_in, charge, L, z) ==
    LET total_number_particle == trapz(rho_in, z)
        total_charge == RMul(total_number_particle, Rat(charge))
        background_charge_density == RDiv(total_charge, Rat(L))
    IN  [p \in DOMAIN rho_in |-> RSub(RMul(rho_in[p], Rat(charge)), background_charge_density)]

\* Strictly increasing grids, uniform or not.
ChargeGrids == {<<0, 1, 2>>, <<0, 1, 3>>, <<1, 3, 4>>}
ChargeDensities == [1..3 -> {Rat(0), Rat(1), Rat(2)}]
Charges == {-1, 1, 2}
DomainLengths == {-2, 1, 2, 3}

\* A call of a solver that is not under way (the utility is called alone).
NoSolverCall ==
    /\ f = "calculate_charge_density"
    /\ zbins = <<Fin(0), Fin(1)>>
    /\ muloc = [H |-> <<Fin(10), Fin(10)>>, O |-> <<Fin(10), Fin(10)>>]
    /\ initial_guess = Pow2(11)
    /\ maxiter = 0
    /\ alpha_initial = alpha_initial_default
    /\ caller_tables = [alpha_updates |-> NoTable, alpha_restr_updates |-> NoTable]
    /\ tolerance = tolerance_default_LR
    /\ tolerance_restr = tolerance_restr_default
    /\ q = [H |-> 1, O |-> -1]
    /\ self_energy = 1
    /\ module_tables = [alpha_updates_default_onetype |-> alpha_updates_default_onetype_init,
                        alpha_updates_default_twotype |-> alpha_updates_default_twotype_init,
                        alpha_restr_updates_default |-> alpha_restr_updates_default_init]
    /\ entry = [zbins |-> zbins, muloc |-> muloc, caller_tables |-> caller_tables]
    /\ valid = [s \in Species |-> [p \in DOMAIN zbins |-> FALSE]]
    /\ rho = [s \in Species |-> Zeros(zbins)]
    /\ rho_new = [s \in Species |-> Zeros(zbins)]
    /\ log_rho = [s \in Species |-> Zeros(zbins)]
    /\ log_rho_new = [s \in Species |-> Zeros(zbins)]
    /\ owner = [s \in Species |-> "unbound"]
    /\ alpha = alpha_initial
    /\ alpha_updates = <<>>
    /\ alpha_restr = alpha_restr_initial
    /\ alpha_restr_updates = <<>>
    /\ delta_phi = Zeros(zbins)
    /\ delta_phi_new = Zeros(zbins)
    /\ phi_prev = Zeros(zbins)
    /\ delta = Fin(0)
    /\ delta_restr = Fin(1)
    /\ relative_error_low = FALSE
    /\ i = 0
    /\ pc = "idle"
    /\ result = [kind |-> "pending", zbins |-> <<>>, rho |-> <<>>]
    /\ status = "ITERATING"
    /\ ncalls = 0
    /\ nan_seen = FALSE
    /\ met = FALSE

InitCharge ==
    /\ NoSolverCall
    /\ \E r \in ChargeDensities, c \in Charges, len \in DomainLengths, z \in ChargeGrids :
        cd = [pc |-> "call", rho_new |-> r, charge |-> c, L |-> len, zbins |-> z,
              n_z |-> <<>>]

Call_calculate_charge_density ==
    /\ cd.pc = "call"
    /\ cd' = [cd EXCEPT !.pc = "done",
                        !.n_z = calculate_charge_density(cd.rho_new, cd.charge, cd.L, cd.zbins)]
    /\ UNCHANGED <<inputs, fields, schedule, potential, control>>

NextCharge == Call_calculate_charge_density

SpecCharge == InitCharge /\ [][NextCharge]_vars

\* ------------------------------------------------------------------ claims

Sentinel == [kind |-> "None", zbins |-> <<>>, rho |-> <<>>]
Started == pc \in {"loop", "done"}
Returned == pc = "done"

\* C1: once the evaluator has returned NaN at a valid position of a species,
\* the call returns the failure sentinel and never a density field.
C1_NaNReturnsSentinel ==
    (Returned /\ nan_seen) => result = Sentinel

\* C2: a converged call returns densities that are exactly zero where the
\* species' local chemical potential is not finite and strictly positive
\* where it is finite.
C2_ConvergedDensitySign ==
    status = "CONVERGED" =>
        \A s \in Species : \A p \in DOMAIN zbins :
            IF isfinite(muloc[s][p])
            THEN FGt(result.rho[s][p], Fin(0))
            ELSE result.rho[s][p] = Fin(0)

\* C3: the density field is exactly zero at every invalid position in every
\* iteration, the field handed to the evaluator in iteration 0 included.
C3_ZeroAtInvalid ==
    Started => \A s \in Species : \A p \in DOMAIN zbins : ~valid[s][p] => rho[s][p] = Fin(0)

Max(S) == CHOOSE m \in S : \A n \in S : n <= m

\* The coefficient of the largest threshold <= n, the initial one when none.
Scheduled(table, initial, n) ==
    LET reached == {k \in DOMAIN table : k <= n}
    IN  IF reached = {} THEN initial ELSE table[Max(reached)]

TableOf(arg, default) == IF arg.given THEN arg.table ELSE default

AlphaTable ==
    TableOf(entry.caller_tables.alpha_updates,
            IF f = "SR_onetype" THEN alpha_updates_default_onetype_init
            ELSE alpha_updates_default_twotype_init)

RestrTable == TableOf(entry.caller_tables.alpha_restr_updates, alpha_restr_updates_default_init)

\* C5: the coefficient used in iteration n is the table value of the largest
\* threshold <= n, and alpha_initial when no threshold is <= n; the same for
\* alpha_restr, with its table and its initial value 0.01, in the LR solver.
C5_Schedule ==
    ncalls >= 1 =>
        /\ alpha = Scheduled(AlphaTable, alpha_initial, ncalls - 1)
        /\ f = "LR_twotype" => alpha_restr = Scheduled(RestrTable, alpha_restr_initial, ncalls - 1)

\* A threshold took effect in its own iteration, one beyond maxiter did not.
C5_Witness ==
    /\ ncalls = 2
    /\ 1 \in DOMAIN AlphaTable
    /\ alpha = AlphaTable[1]
    /\ alpha # alpha_initial
    /\ \E k \in DOMAIN AlphaTable : k > maxiter
    /\ Returned

\* C6: after an LR iteration the potential is the new target exactly when the
\* density delta is not below the secondary threshold, or when it is below
\* it and delta_restr is not above tolerance_restr; it is the damped mix
\* (1 - alpha_restr) * old + alpha_restr * target when the delta is below
\* the threshold and delta_restr is above tolerance_restr.
C6_PotentialUpdate ==
    (f = "LR_twotype" /\ ncalls >= 1) =>
        LET below == FLt(delta, Fin(SecondaryThreshold))
            above == FGt(delta_restr, Fin(tolerance_restr))
        IN  /\ ~below => delta_phi = delta_phi_new
            /\ (below /\ above) => delta_phi = np_mix(alpha_restr, phi_prev, delta_phi_new)
            /\ (below /\ ~above) => delta_phi = delta_phi_new

\* A damped update that differs from the target, after an undamped one.
C6_Witness ==
    /\ f = "LR_twotype"
    /\ ncalls >= 2
    /\ FLt(delta, Fin(SecondaryThreshold))
    /\ FGt(delta_restr, Fin(tolerance_restr))
    /\ delta_phi # delta_phi_new
    /\ delta_phi # phi_prev

\* C7: the LR solver returns fields in an iteration exactly when in that
\* iteration the delta is not NaN and is below tolerance and delta_restr,
\* the largest difference between the new target potential and the
\* potential held before the update, is below tolerance_restr.
C7_JointConvergence ==
    (f = "LR_twotype" /\ ncalls >= 1) =>
        /\ delta_restr = np_max(np_abs_diff(delta_phi_new, phi_prev))
        /\ (result.kind = "fields") =
               (/\ ~isnan(delta)
                /\ FLt(delta, Fin(tolerance))
                /\ FLt(delta_restr, Fin(tolerance_restr)))

\* A converged return after a potential update that changed the potential
\* held at the start of the call.
C7_Witness ==
    /\ f = "LR_twotype"
    /\ result.kind = "fields"
    /\ ncalls >= 2
    /\ tolerance = tolerance_default_LR
    /\ delta_phi # Zeros(zbins)

\* A return with delta below tolerance alone is not a converged one.
C7_WitnessAlone ==
    /\ f = "LR_twotype"
    /\ Returned
    /\ FLt(delta, Fin(tolerance))
    /\ ~FLt(delta_restr, Fin(tolerance_restr))
    /\ result = Sentinel

IsZero(r) == r.n = 0
Span(z) == z[Len(z)] - z[1]
ChargeIntegral == trapz(cd.n_z, cd.zbins)

\* C8 (as stated): the trapezoidal integral of the field returned by
\* calculate_charge_density is zero for any nonzero domain length L.
C8_IntegralZeroAnyL ==
    cd.pc = "done" => IsZero(ChargeIntegral)

\* C8 (amended): the trapezoidal integral of the returned field is zero when
\* L is the length of the grid, zbins[-1] - zbins[0].
C8_IntegralZeroGridLength ==
    (cd.pc = "done" /\ cd.L = Span(cd.zbins)) => IsZero(ChargeIntegral)

C8_Witness ==
    /\ cd.pc = "done"
    /\ cd.L = Span(cd.zbins)
    /\ cd.charge = 2
    /\ cd.zbins = <<0, 1, 3>>
    /\ cd.rho_new = <<Rat(1), Rat(0), Rat(2)>>
    /\ \E p \in DOMAIN cd.n_z : ~IsZero(cd.n_z[p])

\* C9 (as stated): under the default tolerance the secondary threshold of
\* the potential update is strictly smaller than the density tolerance.
C9_ThresholdTighter ==
    (f = "LR_twotype" /\ tolerance = tolerance_default_LR) => SecondaryThreshold < tolerance

\* C9 (amended): under the default tolerance the secondary threshold is
\* strictly larger than the density tolerance: every delta that passes the
\* convergence test passes the threshold test too.
C9_ThresholdLooser ==
    (f = "LR_twotype" /\ tolerance = tolerance_default_LR) =>
        /\ SecondaryThreshold > tolerance
        /\ (ncalls >= 1 /\ FLt(delta, Fin(tolerance))) => FLt(delta, Fin(SecondaryThreshold))

\* A damped update at a delta between the tolerance and the threshold.
C9_Witness ==
    /\ f = "LR_twotype"
    /\ tolerance = tolerance_default_LR
    /\ ncalls >= 1
    /\ ~FLt(delta, Fin(tolerance))
    /\ FLt(delta, Fin(SecondaryThreshold))
    /\ delta_phi # delta_phi_new

\* C10: on every outcome the caller's grid, local chemical potentials and
\* schedule tables and the module's default tables are as they were at the
\* call.
C10_InputsUnchanged ==
    /\ zbins = entry.zbins
    /\ muloc = entry.muloc
    /\ caller_tables = entry.caller_tables
    /\ module_tables = [alpha_updates_default_onetype |-> alpha_updates_default_onetype_init,
                        alpha_updates_default_twotype |-> alpha_updates_default_twotype_init,
                        alpha_restr_updates_default |-> alpha_restr_updates_default_init]
    /\ status = "CONVERGED" => result.zbins = entry.zbins

\* A divergence after two clean iterations, with a wall in the grid.
C10_Witness ==
    /\ status = "DIVERGED"
    /\ ncalls = 3
    /\ \E s \in Species : \E p \in DOMAIN zbins : ~valid[s][p]

====
